---- MODULE Spec2Model ----
(***************************************************************************)
(* A model of Ising.c: a 2D Ising lattice on a torus, its energy           *)
(* functional, the global single-flip sampler (tryFlipOneSpin) and the     *)
(* thermalization loop (evolveIntoThermalState).                           *)
(*                                                                         *)
(* Conventions.                                                            *)
(*  - A Lattice is (width, height, data); data is the flat buffer, a       *)
(*    function on 0 .. width*height-1.                                     *)
(*  - A size_t value v is written as the integer of least magnitude that   *)
(*    is congruent to it modulo 2^64: a small v is itself, 2^64 - n is -n. *)
(*    On such representatives size_t addition and subtraction are integer  *)
(*    addition and subtraction; only % has to know the word width.         *)
(*  - A weight_t is kept symbolically: exp(exponent), optionally divided   *)
(*    by the sum of the buffer (normalised); calloc's 0.0 is ZeroWeight.   *)
(*  - The double returned by uniformRandom is the exact fraction           *)
(*    <<numerator, denominator>>.                                          *)
(***************************************************************************)
EXTENDS Integers, Sequences, FiniteSets, TLC

VARIABLES width, height, data,      \* the Lattice
          allocStatus,              \* outcome of allocateLattice: "none", "ok", "error"
          filled,                   \* has fillGroundState run on the lattice
          pc,                       \* position of the program
          x, y,                     \* loop variables of tryFlipOneSpin
          beta, buffer,             \* arguments of tryFlipOneSpin
          energy, consequential_hits, max_consequential_hits,
          pre,                      \* data on entry to the running call
          hist,                     \* per finished sampler step: energy unchanged?
          call, ret                 \* last call of a plain function, and its result

vars == <<width, height, data, allocStatus, filled, pc, x, y, beta, buffer,
          energy, consequential_hits, max_consequential_hits, pre, hist, call, ret>>

-----------------------------------------------------------------------------
(* Bounds of the model.                                                    *)

\* Spec: lattices of at most MaxCells cells (either side may be 0).
MaxCells == 5
\* Spec: at most MaxSteps sampler steps per evolveIntoThermalState call.
MaxSteps == 3
\* Spec: patience is drawn from 0 .. MaxPatience.
MaxPatience == 2
\* SpecOps: lattices of at most OpsMaxCells cells (both sides >= 1).
OpsMaxCells == 9
\* SpecIndex: sides in 1 .. MaxSide, coordinates in -MaxCoord .. MaxCoord,
\* period multiples in -MaxPeriods .. MaxPeriods.
MaxSide == 4
MaxCoord == 6
MaxPeriods == 2
\* SpecLive: the fairness looks at most LiveMaxRounds flips ahead.
LiveMaxRounds == 5

-----------------------------------------------------------------------------
(* Program constants.                                                      *)

SPIN_UP == 1
SPIN_DOWN == -1
\* The least RAND_MAX ISO C allows; rand() returns 0 .. RAND_MAX.
RAND_MAX == 32767
\* main: allocateLattice(5, 5) is out of reach of explicit-state checking;
\* SpecLive runs the smallest torus whose four neighbours are distinct.
LiveDims == <<3, 3>>
\* main: evolveIntoThermalState(lattice, 1, 3)
MainBeta == 1
MainPatience == 3

-----------------------------------------------------------------------------
(* size_t arithmetic.                                                      *)

Sq(a, m) == (a * a) % m

\* 2^64 mod m, by six squarings of 2.
TwoPow64Mod(m) == Sq(Sq(Sq(Sq(Sq(Sq(2 % m, m), m), m), m), m), m)

\* v % m for the size_t value with representative r, m >= 1.
SizeTMod(r, m) == IF r >= 0 THEN r % m ELSE (TwoPow64Mod(m) + r) % m

-----------------------------------------------------------------------------
(* The lattice.                                                            *)

Cells(w, h) == 0 .. (w * h - 1)

allocateLattice(w, h) == [i \in Cells(w, h) |-> 0]

\* A reduction that forgets to add the width before taking the remainder.
reduceXUnbiased(w, cx) == SizeTMod(cx, w)

\* The reduced coordinates computed by getIndex.
reduceX(w, cx) == SizeTMod(cx + w, w)
reduceY(h, cy) == SizeTMod(cy + h, h)

getIndex(w, h, cx, cy) == reduceX(w, cx) * h + reduceY(h, cy)

get(w, h, d, cx, cy) == d[getIndex(w, h, cx, cy)]

set(w, h, d, cx, cy, value) == [d EXCEPT ![getIndex(w, h, cx, cy)] = value]

\* The nested loops of fillGroundState, from cell (cx, cy) on.
RECURSIVE fillFrom(_, _, _, _, _, _)
fillFrom(w, h, d, spin, cx, cy) ==
    IF cx >= w THEN d
    ELSE IF cy >= h THEN fillFrom(w, h, d, spin, cx + 1, 0)
    ELSE fillFrom(w, h, set(w, h, d, cx, cy, spin), spin, cx, cy + 1)

fillGroundState(w, h, d, spin) == fillFrom(w, h, d, spin, 0, 0)

\* A flip written as a 0/1 toggle.
flipToggle(w, h, d, cx, cy) == set(w, h, d, cx, cy, 1 - get(w, h, d, cx, cy))
flip(w, h, d, cx, cy) == set(w, h, d, cx, cy, 0 - get(w, h, d, cx, cy))

\* A cell energy that forgets the (x, y - 1) neighbour.
cellEnergyThree(w, h, d, cx, cy) ==
      get(w, h, d, cx, cy) * get(w, h, d, cx + 1, cy)
    + get(w, h, d, cx, cy) * get(w, h, d, cx - 1, cy)
    + get(w, h, d, cx, cy) * get(w, h, d, cx, cy + 1)

\* The four products one cell adds to the energy.
cellEnergy(w, h, d, cx, cy) ==
      get(w, h, d, cx, cy) * get(w, h, d, cx + 1, cy)
    + get(w, h, d, cx, cy) * get(w, h, d, cx - 1, cy)
    + get(w, h, d, cx, cy) * get(w, h, d, cx, cy + 1)
    + get(w, h, d, cx, cy) * get(w, h, d, cx, cy - 1)

\* The nested loops of calcEnergy, from cell (cx, cy) on.
RECURSIVE energyFrom(_, _, _, _, _)
energyFrom(w, h, d, cx, cy) ==
    IF cx >= w THEN 0
    ELSE IF cy >= h THEN energyFrom(w, h, d, cx + 1, 0)
    ELSE cellEnergy(w, h, d, cx, cy) + energyFrom(w, h, d, cx, cy + 1)

calcEnergy(w, h, d) == energyFrom(w, h, d, 0, 0)

ZeroWeight == [zero |-> TRUE]

\* exp(- beta * energy), kept as its exponent.
calcWeight(w, h, d, b) == [exponent |-> 0 - b * calcEnergy(w, h, d), normalised |-> FALSE]

\* buffer[i] /= sum, for every cell.
normalise(buf) ==
    [i \in DOMAIN buf |->
        IF buf[i] = ZeroWeight THEN buf[i] ELSE [buf[i] EXCEPT !.normalised = TRUE]]

\* The lines printLattice writes: one per x, one character per y.
printLattice(w, h, d) ==
    [i \in 1 .. w |-> [j \in 1 .. h |-> IF get(w, h, d, i - 1, j - 1) = 1 THEN "+" ELSE "-"]]

\* (weight_t) rand() / (weight_t) RAND_MAX for rand() = n.
uniformRandom(n) == <<n, RAND_MAX>>

-----------------------------------------------------------------------------
(* Loop positions of tryFlipOneSpin: for (x ...) for (y ...).              *)

\* The first cell the nested loops visit; x = w means the loops are over.
LoopStart(w, h) == IF w = 0 \/ h = 0 THEN <<w, 0>> ELSE <<0, 0>>

\* The cell after (cx, cy).
Advance(w, h, cx, cy) == IF cy + 1 < h THEN <<cx, cy + 1>> ELSE <<cx + 1, 0>>

\* if (energy == newEnergy) ++consequential_hits; else consequential_hits = 0;
NextHitsNoReset(hits, e, newEnergy) == IF e = newEnergy THEN hits + 1 ELSE hits
NextHitsFresh(hits, e, newEnergy) == IF e = newEnergy THEN 1 ELSE 0
NextHits(hits, e, newEnergy) == IF e = newEnergy THEN hits + 1 ELSE 0

-----------------------------------------------------------------------------
(* The program.                                                            *)

Dims(lo, cells) == {d \in (lo .. cells) \X (lo .. cells) : d[1] * d[2] <= cells}

Spins == {SPIN_UP, SPIN_DOWN}

Init ==
    /\ width = 0 /\ height = 0 /\ data = allocateLattice(0, 0)
    /\ allocStatus = "none" /\ filled = FALSE
    /\ pc = "start"
    /\ x = 0 /\ y = 0 /\ beta = 0 /\ buffer = allocateLattice(0, 0)
    /\ energy = 0 /\ consequential_hits = 0 /\ max_consequential_hits = 0
    /\ pre = allocateLattice(0, 0) /\ hist = <<>>
    /\ call = <<"none">> /\ ret = <<>>

\* Lattice allocateLattice(size_t width, size_t height): no dimension is refused.
AllocateLattice(w, h) ==
    /\ pc = "start"
    /\ width' = w /\ height' = h /\ data' = allocateLattice(w, h)
    /\ allocStatus' = "ok"
    /\ pc' = "idle"
    /\ call' = <<"allocateLattice", w, h>>
    /\ UNCHANGED <<filled, x, y, beta, buffer, energy, consequential_hits,
                   max_consequential_hits, pre, hist, ret>>

FillGroundState(spin) ==
    /\ pc = "idle"
    /\ data' = fillGroundState(width, height, data, spin)
    /\ filled' = TRUE
    /\ pre' = data
    /\ call' = <<"fillGroundState", spin>> /\ ret' = <<>>
    /\ UNCHANGED <<width, height, allocStatus, pc, x, y, beta, buffer, energy,
                   consequential_hits, max_consequential_hits, hist>>

\* A caller's flip(lattice, cx, cy); getIndex divides by the sides, so both are >= 1.
Flip(cx, cy) ==
    /\ pc = "idle" /\ width >= 1 /\ height >= 1
    /\ pre' = data
    /\ data' = flip(width, height, data, cx, cy)
    /\ call' = <<"flip", cx, cy>> /\ ret' = <<>>
    /\ UNCHANGED <<width, height, allocStatus, filled, pc, x, y, beta, buffer, energy,
                   consequential_hits, max_consequential_hits, hist>>

PrintLattice ==
    /\ pc = "idle"
    /\ pre' = data
    /\ ret' = printLattice(width, height, data)
    /\ call' = <<"printLattice">>
    /\ UNCHANGED <<width, height, data, allocStatus, filled, pc, x, y, beta, buffer,
                   energy, consequential_hits, max_consequential_hits, hist>>

\* evolveIntoThermalState up to the first call of tryFlipOneSpin.
EvolveBegin(b, patience) ==
    /\ pc = "idle"
    /\ energy' = calcEnergy(width, height, data)
    /\ buffer' = [i \in Cells(width, height) |-> ZeroWeight]
    /\ consequential_hits' = 0
    /\ max_consequential_hits' = patience
    /\ beta' = b
    /\ hist' = <<>>
    /\ pre' = data
    /\ x' = LoopStart(width, height)[1] /\ y' = LoopStart(width, height)[2]
    /\ pc' = "eval"
    /\ call' = <<"evolveIntoThermalState", b, patience>> /\ ret' = <<>>
    /\ UNCHANGED <<width, height, data, allocStatus, filled>>

\* tryFlipOneSpin, candidate pass: flip(lattice, x, y).
EvalFlip ==
    /\ pc = "eval" /\ x < width /\ Len(hist) < MaxSteps
    /\ data' = flip(width, height, data, x, y)
    /\ pc' = "restore"
    /\ UNCHANGED <<width, height, allocStatus, filled, x, y, beta, buffer, energy,
                   consequential_hits, max_consequential_hits, pre, hist, call, ret>>

\* A candidate pass that forgets the second flip.
EvalRestoreNoFlipBack ==
    /\ pc = "restore"
    /\ buffer' = [buffer EXCEPT ![getIndex(width, height, x, y)] =
                                    calcWeight(width, height, data, beta)]
    /\ x' = Advance(width, height, x, y)[1] /\ y' = Advance(width, height, x, y)[2]
    /\ pc' = "eval"
    /\ UNCHANGED <<width, height, data, allocStatus, filled, beta, energy, consequential_hits,
                   max_consequential_hits, pre, hist, call, ret>>

\* tryFlipOneSpin, candidate pass: store the weight, flip back, next cell.
EvalRestore ==
    /\ pc = "restore"
    /\ buffer' = [buffer EXCEPT ![getIndex(width, height, x, y)] =
                                    calcWeight(width, height, data, beta)]
    /\ data' = flip(width, height, data, x, y)
    /\ x' = Advance(width, height, x, y)[1] /\ y' = Advance(width, height, x, y)[2]
    /\ pc' = "eval"
    /\ UNCHANGED <<width, height, allocStatus, filled, beta, energy, consequential_hits,
                   max_consequential_hits, pre, hist, call, ret>>

NoSite == -1

\* tryFlipOneSpin after the candidate pass: normalise, draw r, walk the cumulative
\* sums and flip the first cell whose sum exceeds r. Which cell that is depends on
\* the draw: any cell s (in walk order, s = x * height + y), or none when no sum
\* exceeds r (r = 1, a sum rounded below r, or a sum that is not a number).
Select(s) ==
    /\ pc = "eval" /\ x >= width /\ Len(hist) < MaxSteps
    /\ buffer' = normalise(buffer)
    /\ data' = IF s = NoSite THEN data
               ELSE flip(width, height, data, s \div height, s % height)
    /\ pc' = "check"
    /\ UNCHANGED <<width, height, allocStatus, filled, x, y, beta, energy,
                   consequential_hits, max_consequential_hits, pre, hist, call, ret>>

\* evolveIntoThermalState after tryFlipOneSpin returned: compare the energies,
\* count, break or go round again. rec: whether hist records the step.
LoopCheck(rec) ==
    /\ pc = "check"
    /\ LET newEnergy == calcEnergy(width, height, data)
           hits == NextHits(consequential_hits, energy, newEnergy)
       IN /\ consequential_hits' = hits
          /\ hist' = IF rec THEN Append(hist, calcEnergy(width, height, pre) = newEnergy)
                     ELSE hist
          /\ IF hits >= max_consequential_hits
             THEN /\ pc' = "done"
                  /\ UNCHANGED <<energy, pre, x, y>>
             ELSE /\ energy' = newEnergy
                  /\ pre' = data
                  /\ x' = LoopStart(width, height)[1] /\ y' = LoopStart(width, height)[2]
                  /\ pc' = "eval"
    /\ UNCHANGED <<width, height, data, allocStatus, filled, beta, buffer,
                   max_consequential_hits, call, ret>>

\* evolveIntoThermalState returns: free(buffer), and the locals are gone.
EvolveReturn ==
    /\ pc = "done"
    /\ pc' = "idle"
    /\ x' = 0 /\ y' = 0 /\ beta' = 0 /\ buffer' = allocateLattice(0, 0)
    /\ energy' = 0 /\ consequential_hits' = 0 /\ max_consequential_hits' = 0
    /\ hist' = <<>>
    /\ UNCHANGED <<width, height, data, allocStatus, filled, pre, call, ret>>

Betas == {0, 1}

Next ==
    \/ \E d \in Dims(0, MaxCells) : AllocateLattice(d[1], d[2])
    \/ \E spin \in Spins : FillGroundState(spin)
    \/ \E cx \in -1 .. width, cy \in -1 .. height : Flip(cx, cy)
    \/ \E b \in Betas, patience \in 0 .. MaxPatience : EvolveBegin(b, patience)
    \/ EvalFlip
    \/ EvalRestore
    \/ \E s \in Cells(width, height) \cup {NoSite} : Select(s)
    \/ LoopCheck(TRUE)
    \/ EvolveReturn

Spec == Init /\ [][Next]_vars

-----------------------------------------------------------------------------
(* Claims checked under Spec.                                              *)

InEvolve == pc \in {"eval", "restore", "check", "done"}

\* Steps a .. b of the history all left the energy unchanged.
AllUnchanged(s, a, b) == \A i \in a .. b : s[i]

\* Some p consecutive steps among the first n of s left the energy unchanged.
HasRun(s, n, p) == \E i \in 1 .. (n - p + 1) : AllUnchanged(s, i, i + p - 1)

\* C1: with patience >= 1, evolveIntoThermalState returns exactly at the first
\* sampler step that completes a run of `patience` consecutive energy-unchanged
\* steps: once returned, the last `patience` steps were unchanged and no earlier
\* run of that length occurred; while it has not returned, no such run has occurred.
C1_ReturnsAtFirstRun ==
    (InEvolve /\ max_consequential_hits >= 1) =>
        IF pc = "done"
        THEN /\ Len(hist) >= max_consequential_hits
             /\ AllUnchanged(hist, Len(hist) - max_consequential_hits + 1, Len(hist))
             /\ ~HasRun(hist, Len(hist) - 1, max_consequential_hits)
        ELSE ~HasRun(hist, Len(hist), max_consequential_hits)

\* A call that returned after a changed step followed by the run.
C1_Witness ==
    /\ pc = "done" /\ max_consequential_hits = 2 /\ filled
    /\ Len(hist) = 3 /\ hist[1] = FALSE
    /\ width >= 2 /\ height >= 2

DiffCells == {i \in DOMAIN data : data[i] # pre[i]}

\* C2: one call of tryFlipOneSpin changes at most one cell: between candidates the
\* lattice is the pre-call lattice, during a candidate only that candidate's cell
\* differs, and on return at most one cell differs from the pre-call lattice.
C2_AtMostOneFlip ==
    /\ pc = "eval" => data = pre
    /\ pc = "restore" => DiffCells \subseteq {getIndex(width, height, x, y)}
    /\ pc = "check" => Cardinality(DiffCells) <= 1

\* A returned call that flipped exactly one cell of a lattice of several cells.
C2_Witness ==
    /\ pc = "check" /\ filled /\ Cardinality(DOMAIN data) >= 4
    /\ Cardinality(DiffCells) = 1

\* C8: once fillGroundState has run, every cell holds +1 or -1 in every state,
\* the states inside the sampler's candidate pass included.
C8_SpinsOnly == filled => \A i \in DOMAIN data : data[i] \in {SPIN_UP, SPIN_DOWN}

\* Inside the candidate pass of a later sampler step, one cell temporarily flipped.
C8_Witness ==
    /\ filled /\ pc = "restore" /\ Len(hist) >= 1
    /\ DiffCells # {}
    /\ \E i, j \in DOMAIN data : data[i] = SPIN_UP /\ data[j] = SPIN_DOWN

\* C9: allocating a lattice with a zero width or height ends in an error, and
\* nothing runs on the degenerate lattice.
C9_ZeroDimensionFailsFast ==
    (allocStatus # "none" /\ (width = 0 \/ height = 0)) =>
        (allocStatus = "error" /\ pc = "idle" /\ ~filled)

-----------------------------------------------------------------------------
(* SpecOps: the lattice operations on their own, on every lattice of at    *)
(* most OpsMaxCells cells.                                                 *)

InitOps ==
    /\ \E d \in Dims(1, OpsMaxCells) :
          /\ width = d[1] /\ height = d[2]
          /\ data = allocateLattice(d[1], d[2])
          /\ pre = allocateLattice(d[1], d[2])
          /\ call = <<"allocateLattice", d[1], d[2]>>
    /\ allocStatus = "ok" /\ filled = FALSE
    /\ pc = "idle"
    /\ x = 0 /\ y = 0 /\ beta = 0 /\ buffer = allocateLattice(0, 0)
    /\ energy = 0 /\ consequential_hits = 0 /\ max_consequential_hits = 0
    /\ hist = <<>> /\ ret = <<>>

NextOps ==
    \/ \E spin \in Spins : FillGroundState(spin)
    \/ \E cx \in -1 .. width, cy \in -1 .. height : Flip(cx, cy)
    \/ PrintLattice

SpecOps == InitOps /\ [][NextOps]_vars

\* C5: on an n x n lattice, n >= 1, calcEnergy right after fillGroundState(spin)
\* is 4 * n * n, for either spin.
C5_GroundEnergy ==
    (call[1] = "fillGroundState" /\ width = height) =>
        calcEnergy(width, height, data) = 4 * width * width

\* fillGroundState(+1) has just run on the 2 x 2 lattice, whose neighbours coincide.
C5_Witness ==
    /\ call = <<"fillGroundState", SPIN_UP>> /\ width = 2 /\ height = 2
    /\ pre # data

SpinLattice(d) == \A i \in DOMAIN d : d[i] \in Spins

\* C6: for a lattice of +1/-1 cells, printLattice writes exactly `height` lines of
\* `width` characters each, the character for cell (i, j) being '+' for +1 and
\* '-' for -1, and leaves the lattice as it was.
C6_PrintShape ==
    (call[1] = "printLattice" /\ SpinLattice(data)) =>
        /\ Len(ret) = height
        /\ \A j \in 1 .. height :
              /\ Len(ret[j]) = width
              /\ \A i \in 1 .. width :
                    ret[j][i] = IF get(width, height, data, i - 1, j - 1) = SPIN_UP
                                THEN "+" ELSE "-"
        /\ data = pre

\* The neighbour sum of cell (cx, cy) in lattice d.
NeighbourSum(w, h, d, cx, cy) ==
      get(w, h, d, cx + 1, cy) + get(w, h, d, cx - 1, cy)
    + get(w, h, d, cx, cy + 1) + get(w, h, d, cx, cy - 1)

\* calcEnergy after flip(cx, cy) is calcEnergy before it minus
\* 4 * s * (sum of the four neighbours before the flip), and the energy is
\* unchanged exactly when that sum is zero.
DeltaEnergyHolds ==
    LET s == get(width, height, pre, call[2], call[3])
        n == NeighbourSum(width, height, pre, call[2], call[3])
    IN /\ calcEnergy(width, height, data) = calcEnergy(width, height, pre) - 4 * s * n
       /\ (calcEnergy(width, height, data) = calcEnergy(width, height, pre)) <=> (n = 0)

\* C10 as claimed: the delta-energy formula holds after every flip on every
\* lattice of +1/-1 cells with width, height >= 1.
C10_DeltaEnergyAnySize ==
    (call[1] = "flip" /\ SpinLattice(pre) /\ width >= 1 /\ height >= 1) => DeltaEnergyHolds

\* C10 amended: the delta-energy formula holds after every flip on every lattice
\* of +1/-1 cells with width, height >= 2 (no cell is its own neighbour).
C10_DeltaEnergy ==
    (call[1] = "flip" /\ SpinLattice(pre) /\ width >= 2 /\ height >= 2) => DeltaEnergyHolds

\* A flip on a mixed 3 x 3 lattice that changed the energy, and one that did not.
C10_Witness ==
    /\ call[1] = "flip" /\ SpinLattice(pre) /\ width = 3 /\ height = 3
    /\ NeighbourSum(width, height, pre, call[2], call[3]) = 0
    /\ \E i, j \in DOMAIN pre : pre[i] # pre[j]

-----------------------------------------------------------------------------
(* SpecIndex: getIndex through get, on coordinates on both sides of zero.  *)

\* The lattice is all SPIN_DOWN but for one SPIN_UP cell, so that reading a
\* different cell is seen.
InitIndex ==
    /\ \E w \in 1 .. MaxSide, h \in 1 .. MaxSide :
          /\ width = w /\ height = h
          /\ \E mx \in 0 .. w - 1, my \in 0 .. h - 1 :
                data = set(w, h, fillGroundState(w, h, allocateLattice(w, h), SPIN_DOWN),
                           mx, my, SPIN_UP)
          /\ call = <<"allocateLattice", w, h>>
    /\ pre = data
    /\ allocStatus = "ok" /\ filled = TRUE
    /\ pc = "idle"
    /\ x = 0 /\ y = 0 /\ beta = 0 /\ buffer = allocateLattice(0, 0)
    /\ energy = 0 /\ consequential_hits = 0 /\ max_consequential_hits = 0
    /\ hist = <<>> /\ ret = <<>>

\* get at (cx, cy), at (cx + k * width, cy) and at (cx, cy + k * height). get
\* changes nothing, so one call per behaviour shows every result.
Get(cx, cy, k) ==
    /\ pc = "idle" /\ call[1] # "get"
    /\ call' = <<"get", cx, cy, k>>
    /\ ret' = <<get(width, height, data, cx, cy),
                get(width, height, data, cx + k * width, cy),
                get(width, height, data, cx, cy + k * height)>>
    /\ UNCHANGED <<width, height, data, allocStatus, filled, pc, x, y, beta, buffer,
                   energy, consequential_hits, max_consequential_hits, pre, hist>>

NextIndex ==
    \E cx \in -MaxCoord .. MaxCoord, cy \in -MaxCoord .. MaxCoord,
       k \in -MaxPeriods .. MaxPeriods : Get(cx, cy, k)

SpecIndex == InitIndex /\ [][NextIndex]_vars

\* C4: getIndex reduces every integer coordinate by the true mathematical modulo
\* (x mod width, y mod height, negative coordinates included), and get is periodic:
\* get(x, y) = get(x + k * width, y) = get(x, y + k * height) for every integer k.
C4_TrueModulo ==
    call[1] = "get" =>
        /\ reduceX(width, call[2]) = call[2] % width
        /\ reduceY(height, call[3]) = call[3] % height
        /\ ret[1] = ret[2] /\ ret[1] = ret[3]

-----------------------------------------------------------------------------
(* SpecRand: uniformRandom on every value rand() can return.               *)

InitRand ==
    /\ width = 0 /\ height = 0 /\ data = allocateLattice(0, 0)
    /\ allocStatus = "none" /\ filled = FALSE
    /\ pc = "start"
    /\ x = 0 /\ y = 0 /\ beta = 0 /\ buffer = allocateLattice(0, 0)
    /\ energy = 0 /\ consequential_hits = 0 /\ max_consequential_hits = 0
    /\ pre = allocateLattice(0, 0) /\ hist = <<>>
    /\ call = <<"none">> /\ ret = <<>>

\* double r = uniformRandom(), rand() returning n. The result depends on n
\* alone, so one call per behaviour shows every result.
UniformRandom(n) ==
    /\ call[1] = "none"
    /\ call' = <<"uniformRandom", n>>
    /\ ret' = uniformRandom(n)
    /\ UNCHANGED <<width, height, data, allocStatus, filled, pc, x, y, beta, buffer,
                   energy, consequential_hits, max_consequential_hits, pre, hist>>

NextRand == \E n \in 0 .. RAND_MAX : UniformRandom(n)

SpecRand == InitRand /\ [][NextRand]_vars

\* C7: uniformRandom returns r with 0 <= r < 1 for every value of rand().
C7_HalfOpenUnitInterval ==
    call[1] = "uniformRandom" => (0 <= ret[1] /\ ret[1] < ret[2])

-----------------------------------------------------------------------------
(* SpecLive: main's call evolveIntoThermalState(lattice, 1, 3) on a        *)
(* uniformly filled lattice, with no bound on the number of steps.         *)

LiveW == LiveDims[1]
LiveH == LiveDims[2]

InitLive ==
    /\ width = LiveW /\ height = LiveH
    /\ \E spin \in Spins :
          /\ data = fillGroundState(LiveW, LiveH, allocateLattice(LiveW, LiveH), spin)
          /\ call = <<"fillGroundState", spin>>
    /\ pre = allocateLattice(LiveW, LiveH)
    /\ allocStatus = "ok" /\ filled = TRUE
    /\ pc = "idle"
    /\ x = 0 /\ y = 0 /\ beta = 0 /\ buffer = allocateLattice(0, 0)
    /\ energy = 0 /\ consequential_hits = 0 /\ max_consequential_hits = 0
    /\ hist = <<>> /\ ret = <<>>

NextLive ==
    \/ EvolveBegin(MainBeta, MainPatience)
    \/ EvalFlip
    \/ EvalRestore
    \/ \E s \in Cells(width, height) \cup {NoSite} : Select(s)
    \/ LoopCheck(FALSE)

(* The sampler draws its site with rand(): in every step every site has a  *)
(* weight exp(..) > 0, hence a positive chance of being the one flipped. A  *)
(* run of the program is therefore fair to the sites: a flip that is        *)
(* possible again and again is made again and again. The fairness below     *)
(* states this for the flips that bring the loop nearer to its return, one  *)
(* condition per distance; the step that flips nothing (NoSite) is allowed  *)
(* but never relied on.                                                    *)

LiveCells == Cells(LiveW, LiveH)

\* A lattice of +1/-1 cells as a number: bit i is set when cell i is SPIN_UP.
LiveCodes == 0 .. (2 ^ (LiveW * LiveH) - 1)

Decode(c) == [i \in LiveCells |-> IF (c \div (2 ^ i)) % 2 = 1 THEN SPIN_UP ELSE SPIN_DOWN]

Code(d) ==
    LET n == LiveW * LiveH
        sum[i \in 0 .. n] ==
            IF i = 0 THEN 0
            ELSE sum[i - 1] + (IF d[i - 1] = SPIN_UP THEN 2 ^ (i - 1) ELSE 0)
    IN sum[n]

LiveEnergy == [c \in LiveCodes |-> calcEnergy(LiveW, LiveH, Decode(c))]

\* LiveFlip[c][s]: the lattice c after the sampler flipped site s.
LiveFlip ==
    [c \in LiveCodes |->
        [s \in LiveCells |-> Code(flip(LiveW, LiveH, Decode(c), s \div LiveH, s % LiveH))]]

\* The loop at the top of an iteration: the lattice c and consequential_hits,
\* as the number c * MainPatience + consequential_hits.
LiveStates == 0 .. (2 ^ (LiveW * LiveH) * MainPatience - 1)

StateIndex(c, hits) == c * MainPatience + hits

\* The lattice and the counter after the sampler flipped site s in state st.
AfterStep(st, s) ==
    LET c == st \div MainPatience
        c2 == LiveFlip[c][s]
    IN <<c2, NextHits(st % MainPatience, LiveEnergy[c], LiveEnergy[c2])>>

\* RankFn[k][st]: the least number of flips after which the loop can return
\* from st, when that is at most k; 0 otherwise. (@@ <<>> makes TLC build
\* each table once, as an explicit function.)
RankFn[k \in 0 .. LiveMaxRounds] ==
    IF k = 0 THEN [st \in LiveStates |-> 0]
    ELSE LET tab == RankFn[k - 1] @@ <<>>
         IN [st \in LiveStates |->
                IF tab[st] > 0 THEN tab[st]
                ELSE IF \E s \in LiveCells :
                           LET nx == AfterStep(st, s)
                           IN \/ nx[2] >= MainPatience
                              \/ (nx[2] < MainPatience /\ tab[StateIndex(nx[1], nx[2])] > 0)
                     THEN k
                     ELSE 0]

RankTable == RankFn[LiveMaxRounds] @@ <<>>

\* The sampler, k flips from the return, flips a site that leaves fewer.
Progress(k) ==
    /\ pc = "eval" /\ x >= width
    /\ RankTable[StateIndex(Code(data), consequential_hits)] = k
    /\ \E s \in Cells(width, height) :
          /\ Select(s)
          /\ LET hits == NextHits(consequential_hits, energy, calcEnergy(width, height, data'))
             IN \/ hits >= max_consequential_hits
                \/ /\ hits < max_consequential_hits
                   /\ RankTable[StateIndex(Code(data'), hits)] \in 1 .. k - 1

FairLive ==
    /\ WF_vars(EvolveBegin(MainBeta, MainPatience))
    /\ WF_vars(EvalFlip)
    /\ WF_vars(EvalRestore)
    /\ WF_vars(\E s \in Cells(width, height) \cup {NoSite} : Select(s))
    /\ WF_vars(LoopCheck(FALSE))
    /\ \A k \in 1 .. LiveMaxRounds : SF_vars(Progress(k))

SpecLive == InitLive /\ [][NextLive]_vars /\ FairLive

\* C3: started on a uniformly filled small lattice with patience 3 and beta 1,
\* evolveIntoThermalState eventually returns, under fair selection of the site.
C3_Terminates == <>(pc = "done")

\* The loop returned from a lattice it changed, after three unchanged steps.
C3_Witness ==
    /\ pc = "done" /\ consequential_hits = MainPatience
    /\ \E i, j \in DOMAIN data : data[i] # data[j]

====
